---- MODULE Spec2Model ----
(***************************************************************************)
(* BaseGroupChatManager (autogen_agentchat/teams/_group_chat/              *)
(* _base_group_chat_manager.py) as a state machine.  One action per        *)
(* message handler; a handler is an operator over a record of the          *)
(* manager's fields, composed statement by statement in source order.      *)
(***************************************************************************)
EXTENDS Integers, Sequences, FiniteSets, TLC

VARIABLES
    ctor,                            \* the arguments __init__ was called with
    init_error,                      \* "" when __init__ returned, else the ValueError it raised
    participant_name_to_topic_type,  \* self._participant_name_to_topic_type
    termination_condition,           \* TRUE iff self._termination_condition is not None
    has_max_turns,                   \* TRUE iff self._max_turns is not None
    max_turns,                       \* self._max_turns (read only when has_max_turns)
    emit_team_events,                \* self._emit_team_events
    message_thread,                  \* self._message_thread
    current_turn,                    \* self._current_turn
    active_speakers,                 \* self._active_speakers (a list: order and repeats kept)
    output_message_queue,            \* self._output_message_queue (puts only; never drained here)
    terminated,                      \* self._termination_condition.terminated
    handled,                         \* the message the last handler was invoked with
    effects,                         \* what the last handler did, in program order
    run,                             \* history: the run begun by the last GroupChatStart
    round,                           \* history: the round of the last accepted response
    before,                          \* history: the fields when the last handler was entered
    paused,                          \* history: GroupChatPause was handled and no GroupChatResume since
    delivered,                       \* history: number of messages delivered so far
    gate_queue,                      \* the gate's ordered queue of messages that wait
    gate_locked,                     \* the gate is held by a handler
    gate_active,                     \* the handlers executing now
    gate_log                         \* history: deliveries, begins and ends of handlers

config == <<ctor, init_error, participant_name_to_topic_type, termination_condition,
            has_max_turns, max_turns, emit_team_events>>
fields == <<message_thread, current_turn, active_speakers, output_message_queue, terminated>>
history == <<handled, effects, run, round, before, paused, delivered>>
gate == <<gate_queue, gate_locked, gate_active, gate_log>>
vars == <<config, fields, history, gate>>

---------------------------------------------------------------------------
(* Bounds of the model *)

\* Messages delivered to one manager in a behaviour.
MaxDelivered == 3

---------------------------------------------------------------------------
(* Values *)

Range(f) == {f[i] : i \in DOMAIN f}

\* The manager's own name (self._name), the source of the messages it writes.
ManagerName == "manager"
GroupTopic == "group"

ChatMessage(source, content) == [source |-> source, content |-> content]
NoMessage == ChatMessage("", "")

\* Items of the output queue: a relayed message, a SelectSpeakerEvent or a
\* GroupChatTermination (message = StopMessage(content, source), error).
QueueMessage(m) ==
    [type |-> "message", source |-> m.source, content |-> m.content, error |-> "", names |-> <<>>]
SelectSpeakerEvent(names) ==
    [type |-> "select", source |-> ManagerName, content |-> "", error |-> "", names |-> names]
GroupChatTermination(content, source, error) ==
    [type |-> "termination", source |-> source, content |-> content, error |-> error, names |-> <<>>]

IsTermination(item) == item.type = "termination"

Effect(op, arg) == [op |-> op, arg |-> arg]

\* The effects of the last handler with the given op, in order.
Did(op) == SelectSeq(effects, LAMBDA e : e.op = op)
DidWith(op, arg) == SelectSeq(effects, LAMBDA e : e.op = op /\ e.arg = arg)
\* Positions in effects of the effects with the given op.
At(op) == {i \in DOMAIN effects : effects[i].op = op}

---------------------------------------------------------------------------
(* Inbound messages (_events.py), one record shape for all kinds *)

Message(kind, name, has_messages, messages, chat_message, output_task_messages, error) ==
    [kind |-> kind, name |-> name, has_messages |-> has_messages, messages |-> messages,
     chat_message |-> chat_message, output_task_messages |-> output_task_messages,
     error |-> error]

\* GroupChatStart(messages: List | None, output_task_messages: bool)
GroupChatStart(has_messages, messages, output_task_messages) ==
    Message("GroupChatStart", "", has_messages, messages, NoMessage, output_task_messages, "")
\* GroupChatAgentResponse(response = Response(chat_message, inner_messages: List | None), name)
GroupChatAgentResponse(name, has_inner, inner_messages, chat_message) ==
    Message("GroupChatAgentResponse", name, has_inner, inner_messages, chat_message, FALSE, "")
\* GroupChatTeamResponse(result = TaskResult(messages), name)
GroupChatTeamResponse(name, messages) ==
    Message("GroupChatTeamResponse", name, TRUE, messages, NoMessage, FALSE, "")
\* GroupChatMessage(message)
GroupChatMessage(m) == Message("GroupChatMessage", "", FALSE, <<>>, m, FALSE, "")
\* GroupChatError(error)
GroupChatError(error) == Message("GroupChatError", "", FALSE, <<>>, NoMessage, FALSE, error)
Control(kind) == Message(kind, "", FALSE, <<>>, NoMessage, FALSE, "")

Participants == {"X", "Y"}

\* Start with no messages, with a message of the user that is not put on the
\* output queue, or with one that mentions the stop text and is put on it.
StartMessages ==
    {GroupChatStart(FALSE, <<>>, FALSE),
     GroupChatStart(TRUE, <<ChatMessage("user", "hi")>>, FALSE),
     GroupChatStart(TRUE, <<ChatMessage("user", "DONE")>>, TRUE)}

\* X answers as an agent, with a chat message that mentions the stop text or
\* with an inner message and a chat message; Y answers as a team.
ResponseMessages ==
    {GroupChatAgentResponse("X", FALSE, <<>>, ChatMessage("X", "DONE")),
     GroupChatAgentResponse("X", TRUE, <<ChatMessage("X", "inner")>>, ChatMessage("X", "hi")),
     GroupChatTeamResponse("Y", <<ChatMessage("Y", "hi")>>)}

(* One await of select_speaker and the requests that follow it: the selector *)
(* returns a str or a list, raises, or is cancelled through the linked       *)
(* cancellation token; cancel_at = k > 0 cancels the token while the k-th     *)
(* request is being published.                                                *)
Selection(kind, name, names, cancel_at) ==
    [kind |-> kind, name |-> name, names |-> names, cancel_at |-> cancel_at]
Selections ==
    {Selection("str", n, <<>>, 0) : n \in {"X", "Z"}}
    \cup {Selection("list", "", ns, 0) : ns \in {<<>>, <<"X", "Y">>, <<"X", "X">>, <<"X", "Z">>}}
    \cup {Selection("list", "", <<"X", "Y">>, 2)}
    \cup {Selection("raise", "", <<>>, 0), Selection("cancel", "", <<>>, 0)}

---------------------------------------------------------------------------
(* __init__ *)

Args(topics, names, descriptions, condition, flag, has_max, max, emit) ==
    [group_topic_type |-> GroupTopic,
     participant_topic_types |-> topics,
     participant_names |-> names,
     participant_descriptions |-> descriptions,
     termination_condition |-> condition,   \* is not None
     terminated |-> flag,                   \* the flag of the condition handed in
     has_max_turns |-> has_max,             \* max_turns is not None
     max_turns |-> max,
     emit_team_events |-> emit]

\* Two participants X and Y on topics tx and ty: with and without a
\* termination condition and a turn limit, with and without team events.
ValidArgs ==
    {Args(<<"tx", "ty">>, <<"X", "Y">>, <<"dx", "dy">>, c, FALSE, m > 0, m, FALSE) :
        c \in BOOLEAN, m \in {0, 1, 2}}
    \cup {Args(<<"tx", "ty">>, <<"X", "Y">>, <<"dx", "dy">>, FALSE, FALSE, FALSE, 0, TRUE),
          Args(<<"tx", "ty">>, <<"X", "Y">>, <<"dx", "dy">>, TRUE, FALSE, TRUE, 2, TRUE),
          Args(<<"tx", "ty">>, <<"X", "Y">>, <<"dx", "dy">>, TRUE, TRUE, FALSE, 0, FALSE)}

\* One argument list for each check of __init__.
InvalidArgs ==
    {Args(<<"tx", "ty">>, <<"X", "Y">>, <<"dx", "dy">>, FALSE, FALSE, TRUE, 0, FALSE),
     Args(<<"tx", "ty">>, <<"X", "Y">>, <<"dx">>, FALSE, FALSE, FALSE, 0, FALSE),
     Args(<<"tx", "tx">>, <<"X", "Y">>, <<"dx", "dy">>, FALSE, FALSE, FALSE, 0, FALSE),
     Args(<<"tx", GroupTopic>>, <<"X", "Y">>, <<"dx", "dy">>, FALSE, FALSE, FALSE, 0, FALSE),
     Args(<<"tx", "ty">>, <<"X">>, <<"dx", "dy">>, FALSE, FALSE, FALSE, 0, FALSE)}

CtorArgs == ValidArgs \cup InvalidArgs

\* Mutant: only a negative max_turns is rejected.
max_turns_rejected_negative(a) == a.has_max_turns /\ a.max_turns < 0

\* The check of max_turns at the head of __init__.
max_turns_rejected(a) == a.has_max_turns /\ a.max_turns <= 0

\* Mutant: the participant topic types are not checked for duplicates.
init_raises_without_unique(a) ==
    IF max_turns_rejected(a)
    THEN "The maximum number of turns must be greater than 0."
    ELSE IF Len(a.participant_topic_types) # Len(a.participant_descriptions)
    THEN "The number of participant topic types, agent types, and descriptions must be the same."
    ELSE IF a.group_topic_type \in Range(a.participant_topic_types)
    THEN "The group topic type must not be in the participant topic types."
    ELSE IF Len(a.participant_names) # Len(a.participant_topic_types)
    THEN "zip() argument lengths differ"
    ELSE ""

\* The ValueError __init__ raises on these arguments, "" when it returns.
init_raises(a) ==
    IF max_turns_rejected(a)
    THEN "The maximum number of turns must be greater than 0."
    ELSE IF Len(a.participant_topic_types) # Len(a.participant_descriptions)
    THEN "The number of participant topic types, agent types, and descriptions must be the same."
    ELSE IF Cardinality(Range(a.participant_topic_types)) # Len(a.participant_topic_types)
    THEN "The participant topic types must be unique."
    ELSE IF a.group_topic_type \in Range(a.participant_topic_types)
    THEN "The group topic type must not be in the participant topic types."
    ELSE IF Len(a.participant_names) # Len(a.participant_topic_types)
    THEN "zip() argument lengths differ"
    ELSE ""

\* {name: topic_type for name, topic_type in zip(names, topic_types, strict=True)}
zip_names_topics(a) ==
    [n \in Range(a.participant_names) |->
        a.participant_topic_types[
            CHOOSE i \in DOMAIN a.participant_names :
                /\ a.participant_names[i] = n
                /\ \A j \in DOMAIN a.participant_names : a.participant_names[j] = n => j <= i]]

NoRun == [started |-> FALSE, terminations |-> 0, terminal |-> FALSE, rounds |-> 0,
          reported |-> FALSE]
NoRound == [speakers |-> <<>>, arrived |-> <<>>, deltas |-> <<>>, at |-> <<>>, complete |-> TRUE]

Init ==
    \E a \in CtorArgs :
        /\ ctor = a
        /\ init_error = init_raises(a)
        /\ IF init_raises(a) = ""
           THEN /\ participant_name_to_topic_type = zip_names_topics(a)
                /\ termination_condition = a.termination_condition
                /\ has_max_turns = a.has_max_turns
                /\ max_turns = a.max_turns
                /\ emit_team_events = a.emit_team_events
                /\ terminated = a.terminated
           ELSE /\ participant_name_to_topic_type = <<>>
                /\ termination_condition = FALSE
                /\ has_max_turns = FALSE
                /\ max_turns = 0
                /\ emit_team_events = FALSE
                /\ terminated = FALSE
        /\ message_thread = <<>>
        /\ current_turn = 0
        /\ active_speakers = <<>>
        /\ output_message_queue = <<>>
        /\ handled = Control("__init__")
        /\ effects = <<>>
        /\ run = NoRun
        /\ round = NoRound
        /\ before = [thread |-> <<>>, turn |-> 0, active |-> <<>>, queue |-> <<>>,
                     terminated |-> IF init_raises(a) = "" THEN a.terminated ELSE FALSE,
                     run |-> NoRun, paused |-> FALSE]
        /\ paused = FALSE
        /\ delivered = 0
        /\ gate_queue = <<>>
        /\ gate_locked = FALSE
        /\ gate_active = {}
        /\ gate_log = <<>>

---------------------------------------------------------------------------
(* A handler runs over a record of the manager's mutable fields.  raised is *)
(* the exception in flight ("" when none) and stopped is the value the last *)
(* _apply_termination_condition returned.                                   *)

Fields ==
    [thread |-> message_thread, turn |-> current_turn, active |-> active_speakers,
     queue |-> output_message_queue, terminated |-> terminated,
     effects |-> <<>>, raised |-> "", stopped |-> FALSE]

Do(s, op, arg) == [s EXCEPT !.effects = Append(@, Effect(op, arg))]
Raise(s, exc) == [Do(s, "raise", exc) EXCEPT !.raised = exc]

\* asyncio.CancelledError derives from BaseException: `except Exception` lets it pass.
IsException(exc) == exc # "" /\ exc # "CancelledError"

\* await self._output_message_queue.put(item)
queue_put(s, item) == [Do(s, "put", item.type) EXCEPT !.queue = Append(@, item)]

\* await self.publish_message(event, topic_id=DefaultTopicId(type=topic))
publish_message(s, event, topic) == Do(s, "publish:" \o topic, event)

(* The termination condition handed to the manager.  The class is not part *)
(* of these sources: it returns a stop message when a message of the delta *)
(* mentions DONE and then shows terminated until reset.                    *)
StopText == "DONE"
condition_stops(delta) == \E i \in DOMAIN delta : delta[i].content = StopText
condition_call(s, delta) ==
    [Do(s, "condition", IF condition_stops(delta) THEN "stop" ELSE "none")
        EXCEPT !.terminated = @ \/ condition_stops(delta),
               !.stopped = condition_stops(delta)]
condition_reset(s) == [Do(s, "condition_reset", "") EXCEPT !.terminated = FALSE]

\* _signal_termination
signal_termination(s, content, source) ==
    queue_put(publish_message(s, "GroupChatTermination", "output"),
              GroupChatTermination(content, source, ""))

\* _signal_termination_with_error
signal_termination_with_error(s, error) ==
    queue_put(publish_message(s, "GroupChatTermination", "output"),
              GroupChatTermination("An error occurred in the group chat.", ManagerName, error))

\* Mutant: the new messages are put in front of the thread.
update_message_thread_front(s, messages) == [s EXCEPT !.thread = messages \o @]

\* update_message_thread
update_message_thread(s, messages) == [s EXCEPT !.thread = @ \o messages]

\* Mutant: the selection event is also appended to the thread.
log_speaker_selection_threaded(s, speaker_names) ==
    IF emit_team_events
    THEN update_message_thread(
            queue_put(publish_message(s, "GroupChatMessage", "output"),
                      SelectSpeakerEvent(speaker_names)),
            <<ChatMessage(ManagerName, "select")>>)
    ELSE s

\* Mutant: the selection event is put whatever the flag says.
log_speaker_selection_always(s, speaker_names) ==
    queue_put(publish_message(s, "GroupChatMessage", "output"),
              SelectSpeakerEvent(speaker_names))

\* _log_speaker_selection
log_speaker_selection(s, speaker_names) ==
    IF emit_team_events
    THEN queue_put(publish_message(s, "GroupChatMessage", "output"),
                   SelectSpeakerEvent(speaker_names))
    ELSE s

\* Mutant: the turn is counted whether or not the caller asks for it.
increment_turn_always(turn, increment_turn_count) == turn + 1

\* if increment_turn_count: self._current_turn += 1
increment_turn(turn, increment_turn_count) ==
    IF increment_turn_count THEN turn + 1 ELSE turn

\* Mutant: the limit compared with > instead of >=.
max_turns_reached_late(turn) == has_max_turns /\ turn > max_turns

\* if self._max_turns is not None: if self._current_turn >= self._max_turns
max_turns_reached(turn) == has_max_turns /\ turn >= max_turns

\* f"Maximum number of turns {self._max_turns} reached."
max_turns_content == "Maximum number of turns " \o ToString(max_turns) \o " reached."

\* Mutant: termination is signalled without resetting the condition and the turn.
apply_termination_condition_keeps_state(s, delta, increment_turn_count) ==
    LET called == IF termination_condition THEN condition_call(s, delta) ELSE s
    IN  IF termination_condition /\ called.stopped
        THEN [signal_termination(called, "Text 'DONE' mentioned", "TextMentionTermination")
                EXCEPT !.stopped = TRUE]
        ELSE LET counted == [called EXCEPT !.turn = increment_turn(@, increment_turn_count)]
             IN  IF max_turns_reached(counted.turn)
                 THEN [signal_termination(counted, max_turns_content, ManagerName)
                        EXCEPT !.stopped = TRUE]
                 ELSE [counted EXCEPT !.stopped = FALSE]

\* Mutant: the turn limit is looked at before the termination condition.
apply_termination_condition_turns_first(s, delta, increment_turn_count) ==
    LET counted == [s EXCEPT !.turn = increment_turn(@, increment_turn_count)]
    IN  IF max_turns_reached(counted.turn)
        THEN [signal_termination(
                 [(IF termination_condition THEN condition_reset(counted) ELSE counted)
                     EXCEPT !.turn = 0],
                 max_turns_content, ManagerName)
               EXCEPT !.stopped = TRUE]
        ELSE LET called == IF termination_condition THEN condition_call(counted, delta)
                           ELSE counted
             IN  IF termination_condition /\ called.stopped
                 THEN [signal_termination([condition_reset(called) EXCEPT !.turn = 0],
                                          "Text 'DONE' mentioned", "TextMentionTermination")
                        EXCEPT !.stopped = TRUE]
                 ELSE [called EXCEPT !.stopped = FALSE]

\* _apply_termination_condition
apply_termination_condition(s, delta, increment_turn_count) ==
    LET called == IF termination_condition THEN condition_call(s, delta) ELSE s
    IN  IF termination_condition /\ called.stopped
        THEN [signal_termination([condition_reset(called) EXCEPT !.turn = 0],
                                 "Text 'DONE' mentioned", "TextMentionTermination")
                EXCEPT !.stopped = TRUE]
        ELSE LET counted == [called EXCEPT !.turn = increment_turn(@, increment_turn_count)]
             IN  IF max_turns_reached(counted.turn)
                 THEN [signal_termination(
                          [(IF termination_condition THEN condition_reset(counted) ELSE counted)
                              EXCEPT !.turn = 0],
                          max_turns_content, ManagerName)
                        EXCEPT !.stopped = TRUE]
                 ELSE [counted EXCEPT !.stopped = FALSE]

\* if isinstance(speaker_names, str): speaker_names = [speaker_names]
speaker_list(selection) ==
    IF selection.kind = "str" THEN <<selection.name>> ELSE selection.names

\* raise RuntimeError(f"Speaker {speaker_name} not found in participant names.")
UnknownSpeaker == "RuntimeError: Speaker not found in participant names."

\* for speaker_name in speaker_names: if speaker_name not in self._participant_name_to_topic_type
unknown_speakers(speaker_names) ==
    {i \in DOMAIN speaker_names : speaker_names[i] \notin DOMAIN participant_name_to_topic_type}

(* The request loop of _transition_to_next_speakers: one publish and one   *)
(* append per name.  cancel_at = k > 0: the cancellation token is cancelled *)
(* while the k-th publish is awaited, which raises before the append.       *)
RECURSIVE request_speakers(_, _, _, _)
request_speakers(s, speaker_names, k, cancel_at) ==
    IF k > Len(speaker_names) THEN s
    ELSE IF cancel_at = k THEN Raise(s, "CancelledError")
    ELSE request_speakers(
            [Do(s, "request", participant_name_to_topic_type[speaker_names[k]])
                EXCEPT !.active = Append(@, speaker_names[k])],
            speaker_names, k + 1, cancel_at)

\* Mutant: a cancelled selection is noticed only after a request has gone out.
transition_to_next_speakers_cancel_late(s, selection) ==
    LET asked == Do(s, "select_speaker", selection.kind)
        speaker_names == speaker_list(selection)
    IN  IF selection.kind = "raise" THEN Raise(asked, "SelectorError")
        ELSE IF selection.kind = "cancel"
        THEN Raise(request_speakers(asked, <<"X">>, 1, 0), "CancelledError")
        ELSE IF unknown_speakers(speaker_names) # {}
        THEN Raise(asked, UnknownSpeaker)
        ELSE request_speakers(log_speaker_selection(asked, speaker_names),
                              speaker_names, 1, selection.cancel_at)

\* Mutant: a name is validated only when its turn in the request loop comes.
transition_to_next_speakers_validating_late(s, selection) ==
    LET asked == Do(s, "select_speaker", selection.kind)
        speaker_names == speaker_list(selection)
        unknown == unknown_speakers(speaker_names)
        first == CHOOSE i \in unknown : \A j \in unknown : i <= j
    IN  IF selection.kind = "raise" THEN Raise(asked, "SelectorError")
        ELSE IF selection.kind = "cancel" THEN Raise(asked, "CancelledError")
        ELSE IF unknown # {}
        THEN Raise(request_speakers(asked, SubSeq(speaker_names, 1, first - 1), 1, 0),
                   UnknownSpeaker)
        ELSE request_speakers(log_speaker_selection(asked, speaker_names),
                              speaker_names, 1, selection.cancel_at)

\* _transition_to_next_speakers
transition_to_next_speakers(s, selection) ==
    LET asked == Do(s, "select_speaker", selection.kind)
        speaker_names == speaker_list(selection)
    IN  IF selection.kind = "raise" THEN Raise(asked, "SelectorError")
        ELSE IF selection.kind = "cancel" THEN Raise(asked, "CancelledError")
        ELSE IF unknown_speakers(speaker_names) # {}
        THEN Raise(asked, UnknownSpeaker)
        ELSE request_speakers(log_speaker_selection(asked, speaker_names),
                              speaker_names, 1, selection.cancel_at)

\* delta of handle_agent_response: inner messages then the chat message of an
\* agent response, the whole message list of a team response.
response_delta(message) ==
    IF message.kind = "GroupChatAgentResponse"
    THEN (IF message.has_messages THEN message.messages ELSE <<>>) \o <<message.chat_message>>
    ELSE message.messages

\* Mutant: every occurrence of the name is dropped.
list_remove_all(list, x) == SelectSeq(list, LAMBDA y : y # x)

\* list.remove(x): drops the first occurrence.
list_remove(list, x) ==
    LET first == CHOOSE i \in DOMAIN list : list[i] = x /\ \A j \in 1..(i - 1) : list[j] # x
    IN  SubSeq(list, 1, first - 1) \o SubSeq(list, first + 1, Len(list))

\* Mutant: the initial messages are never put on the output queue.
put_messages_none(s, messages) == s

\* for msg in message.messages: await self._output_message_queue.put(msg)
RECURSIVE put_messages(_, _)
put_messages(s, messages) ==
    IF messages = <<>> THEN s
    ELSE put_messages(queue_put(s, QueueMessage(Head(messages))), Tail(messages))

\* Mutant: the terminated flag is not looked at.
already_terminated_ignored(s) == FALSE

\* if self._termination_condition is not None and self._termination_condition.terminated
already_terminated(s) == termination_condition /\ s.terminated

\* Mutant: the result of the termination check is not looked at.
start_after_check_unconditional(checked, selection) ==
    transition_to_next_speakers(checked, selection)

\* if await self._apply_termination_condition(message.messages): return
\* followed by the transition at the end of handle_start.
start_after_check(checked, selection) ==
    IF checked.stopped THEN checked ELSE transition_to_next_speakers(checked, selection)

\* Mutant: a Start without messages also goes through the termination check.
handle_start_checking_always(s, message, validator_raises, selection) ==
    IF already_terminated(s)
    THEN signal_termination(s, "The group chat has already terminated.", ManagerName)
    ELSE LET validated == Do(s, "validate_group_state", "")
         IN  IF validator_raises THEN Raise(validated, "ValidationError")
             ELSE LET logged == IF message.has_messages
                                THEN publish_message(validated, "GroupChatStart", "output")
                                ELSE validated
                      put == IF message.has_messages /\ message.output_task_messages
                             THEN put_messages(logged, message.messages)
                             ELSE logged
                      relayed == IF message.has_messages
                                 THEN publish_message(put, "GroupChatStart", GroupTopic)
                                 ELSE put
                      appended == update_message_thread(relayed, message.messages)
                  IN  start_after_check(
                          apply_termination_condition(appended, message.messages, FALSE),
                          selection)

\* handle_start
handle_start(s, message, validator_raises, selection) ==
    IF already_terminated(s)
    THEN signal_termination(s, "The group chat has already terminated.", ManagerName)
    ELSE LET validated == Do(s, "validate_group_state", "")
         IN  IF validator_raises THEN Raise(validated, "ValidationError")
             ELSE IF message.has_messages
             THEN LET logged == publish_message(validated, "GroupChatStart", "output")
                      put == IF message.output_task_messages
                             THEN put_messages(logged, message.messages)
                             ELSE logged
                      relayed == publish_message(put, "GroupChatStart", GroupTopic)
                      appended == update_message_thread(relayed, message.messages)
                  IN  start_after_check(
                          apply_termination_condition(appended, message.messages, FALSE),
                          selection)
             ELSE transition_to_next_speakers(validated, selection)

\* Mutant: the handler goes on although speakers remain.
speakers_remain_ignored(active) == FALSE

\* if len(self._active_speakers) > 0: return
speakers_remain(active) == Len(active) > 0

\* The try block of handle_agent_response.
agent_response_body(s, message, selection) ==
    LET delta == response_delta(message)
        appended == update_message_thread(s, delta)
    IN  IF message.name \notin Range(appended.active)
        THEN Raise(appended, "ValueError: list.remove(x): x not in list")
        ELSE LET removed == [Do(appended, "remove", message.name)
                                EXCEPT !.active = list_remove(@, message.name)]
             IN  IF speakers_remain(removed.active) THEN removed
                 ELSE LET checked == apply_termination_condition(
                                        Do(removed, "drained", ""), delta, TRUE)
                      IN  IF checked.stopped THEN checked
                          ELSE transition_to_next_speakers(checked, selection)

\* handle_agent_response: the body under `except Exception`, which signals
\* termination with the error and raises it again.
handle_agent_response(s, message, selection) ==
    LET body == agent_response_body(s, message, selection)
    IN  IF IsException(body.raised)
        THEN signal_termination_with_error(Do(body, "except", body.raised), body.raised)
        ELSE body

\* Mutant: the relayed message is also appended to the thread.
handle_group_chat_message_threaded(s, message) ==
    update_message_thread(queue_put(s, QueueMessage(message.chat_message)),
                          <<message.chat_message>>)

\* handle_group_chat_message
handle_group_chat_message(s, message) == queue_put(s, QueueMessage(message.chat_message))

\* handle_group_chat_error
handle_group_chat_error(s, message) == signal_termination_with_error(s, message.error)

(* reset() is abstract here; the managers built on this class clear the    *)
(* thread, the turn count and the active speakers.                         *)
reset(s) == [Do(s, "reset", "") EXCEPT !.thread = <<>>, !.turn = 0, !.active = <<>>]

\* handle_reset
handle_reset(s, message) == reset(s)

\* Mutant: a pause drops the speakers that are awaited.
handle_pause_clearing(s, message) == [s EXCEPT !.active = <<>>]

\* handle_pause, handle_resume: pass
handle_pause(s, message) == s
handle_resume(s, message) == s

\* Mutant: a message without handler is dropped silently.
on_unhandled_message_ignored(s, message) == s

\* on_unhandled_message
on_unhandled_message(s, message) ==
    Raise(s, "ValueError: Unhandled message in group chat manager")

---------------------------------------------------------------------------
(* Actions: the runtime delivers one message and the handler runs to its   *)
(* end.  An exception still in flight at the end leaves to the runtime.     *)

Puts(s, type) == Len(SelectSeq(s.effects, LAMBDA e : e.op = "put" /\ e.arg = type))
Requests(s) == Len(SelectSeq(s.effects, LAMBDA e : e.op = "request"))
Has(s, op) == \E i \in DOMAIN s.effects : s.effects[i].op = op

RunAfter(message, s) ==
    IF message.kind = "GroupChatStart"
    THEN [started |-> TRUE, terminations |-> Puts(s, "termination"),
          terminal |-> Puts(s, "termination") > 0 \/ s.raised # "", rounds |-> 0,
          reported |-> FALSE]
    ELSE [started |-> run.started,
          terminations |-> run.terminations + Puts(s, "termination"),
          terminal |-> \/ run.terminal
                       \/ Puts(s, "termination") > 0
                       \/ (s.raised # "" /\ message.kind \in
                              {"GroupChatAgentResponse", "GroupChatTeamResponse"}),
          rounds |-> run.rounds + (IF Has(s, "drained") THEN 1 ELSE 0),
          reported |-> run.reported \/ (run.started /\ message.kind = "GroupChatError")]

\* (reported: a participant reported an error to the manager during the run.)

\* The round a response belongs to: the speakers awaited when its first
\* response arrived, the names that answered since, the delta of each answer
\* and where in the thread it was put, and whether the last answer emptied
\* the active speakers.
RoundAfter(message, s) ==
    IF Has(s, "reset") THEN NoRound
    ELSE IF ~Has(s, "remove") THEN round
    ELSE IF round.complete
    THEN [speakers |-> active_speakers, arrived |-> <<message.name>>,
          deltas |-> <<response_delta(message)>>,
          at |-> <<Len(message_thread) + 1>>, complete |-> Has(s, "drained")]
    ELSE [round EXCEPT !.arrived = Append(@, message.name),
                       !.deltas = Append(@, response_delta(message)),
                       !.at = Append(@, Len(message_thread) + 1),
                       !.complete = Has(s, "drained")]

\* The handler of message ran from Fields to s: its fields are stored and
\* the history is brought up to date.
Deliver(message, s) ==
    /\ init_error = ""
    /\ delivered' = delivered + 1
    /\ before' = [thread |-> message_thread, turn |-> current_turn, active |-> active_speakers,
                  queue |-> output_message_queue, terminated |-> terminated, run |-> run,
                  paused |-> paused]
    /\ paused' = CASE message.kind = "GroupChatPause" -> TRUE
                   [] message.kind = "GroupChatResume" -> FALSE
                   [] OTHER -> paused
    /\ message_thread' = s.thread
    /\ current_turn' = s.turn
    /\ active_speakers' = s.active
    /\ output_message_queue' = s.queue
    /\ terminated' = s.terminated
    /\ handled' = message
    /\ effects' = IF s.raised # "" THEN Append(s.effects, Effect("propagate", s.raised))
                  ELSE s.effects
    /\ run' = RunAfter(message, s)
    /\ round' = RoundAfter(message, s)
    /\ UNCHANGED config

Commit(message, s) ==
    /\ delivered < MaxDelivered
    /\ Deliver(message, s)
    /\ UNCHANGED gate

Start ==
    \E message \in StartMessages, validator_raises \in BOOLEAN, selection \in Selections :
        Commit(message, handle_start(Fields, message, validator_raises, selection))

AgentResponse ==
    \E message \in ResponseMessages, selection \in Selections :
        Commit(message, handle_agent_response(Fields, message, selection))

RelayMessage ==
    \E message \in {GroupChatMessage(ChatMessage("X", "hi"))} :
        Commit(message, handle_group_chat_message(Fields, message))

ParticipantError ==
    \E message \in {GroupChatError("participant failed")} :
        Commit(message, handle_group_chat_error(Fields, message))

Reset ==
    Commit(Control("GroupChatReset"), handle_reset(Fields, Control("GroupChatReset")))

Pause ==
    Commit(Control("GroupChatPause"), handle_pause(Fields, Control("GroupChatPause")))

Resume ==
    Commit(Control("GroupChatResume"), handle_resume(Fields, Control("GroupChatResume")))

Unhandled ==
    Commit(Control("Unknown"), on_unhandled_message(Fields, Control("Unknown")))

Next ==
    \/ Start
    \/ AgentResponse
    \/ RelayMessage
    \/ ParticipantError
    \/ Reset
    \/ Pause
    \/ Resume
    \/ Unhandled

Spec == Init /\ [][Next]_vars

---------------------------------------------------------------------------
(* The manager among participants that answer: a maximum number of turns is *)
(* configured, every await of select_speaker returns a str or a list, and   *)
(* the only responses are those of participants that were sent a request    *)
(* and have not answered it yet.  A Start is delivered when no response is  *)
(* owed and is counted against MaxDelivered; a response that is owed is     *)
(* always delivered in the end.                                             *)

ReturningSelections == {sel \in Selections : sel.kind \in {"str", "list"} /\ sel.cancel_at = 0}

LiveInit == Init /\ has_max_turns

LiveStart ==
    \E message \in StartMessages, validator_raises \in BOOLEAN, selection \in ReturningSelections :
        /\ active_speakers = <<>>
        /\ Commit(message, handle_start(Fields, message, validator_raises, selection))

LiveResponse ==
    \E message \in ResponseMessages, selection \in ReturningSelections :
        /\ message.name \in Range(active_speakers)
        /\ Deliver(message, handle_agent_response(Fields, message, selection))
        /\ UNCHANGED gate

LiveNext ==
    \/ LiveStart
    \/ LiveResponse

LiveSpec == LiveInit /\ [][LiveNext]_vars /\ WF_vars(LiveResponse)

---------------------------------------------------------------------------
(* The manager behind its sequential gate (SequentialRoutedAgent).  The bus *)
(* delivers messages concurrently; a message of a sequential type waits in  *)
(* the gate's queue until the gate is free, a message of another type is    *)
(* handled as it arrives.  A handler body may suspend at an await; it holds *)
(* the gate until the body has finished, by returning or by raising.  The   *)
(* handler's effect on the manager's fields is taken where the body ends.   *)

\* Mutants: the responses, or the reset, are left out of the list.
SequentialMessageTypes_without_responses ==
    {"GroupChatStart", "GroupChatMessage", "GroupChatReset"}
SequentialMessageTypes_without_reset ==
    {"GroupChatStart", "GroupChatAgentResponse", "GroupChatTeamResponse", "GroupChatMessage"}

\* sequential_message_types handed to SequentialRoutedAgent.__init__
SequentialMessageTypes ==
    {"GroupChatStart", "GroupChatAgentResponse", "GroupChatTeamResponse",
     "GroupChatMessage", "GroupChatReset"}

\* Mutant: the gate lets a message in while a handler holds it.
gate_free_always == TRUE

\* The gate accepts the next queued message only when no handler holds it.
gate_free == ~gate_locked

\* Mutant: the message queued last is taken first.
gate_next_last(queue) == Len(queue)

\* The queue is ordered: the message that has waited longest is next.
gate_next(queue) == 1

\* Mutant: the gate is given back only by a handler that returned.
gate_released_on_return(raised) == ~raised

\* The gate is given back when the body has finished, also by raising.
gate_released(raised) == TRUE

\* The messages the bus delivers, and what the pluggable parts do in a handler.
GateMessages ==
    {GroupChatStart(FALSE, <<>>, FALSE),
     GroupChatAgentResponse("X", FALSE, <<>>, ChatMessage("X", "hi")),
     GroupChatTeamResponse("Y", <<ChatMessage("Y", "hi")>>),
     GroupChatMessage(ChatMessage("X", "hi")),
     Control("GroupChatReset"),
     GroupChatError("participant failed"),
     Control("GroupChatPause")}
GateSelections ==
    {Selection("str", "X", <<>>, 0), Selection("list", "", <<"X", "Y">>, 0),
     Selection("raise", "", <<>>, 0)}

\* The handler the message is routed to (@rpc and @event by message type).
on_message_impl(s, message, validator_raises, selection) ==
    CASE message.kind = "GroupChatStart" -> handle_start(s, message, validator_raises, selection)
      [] message.kind \in {"GroupChatAgentResponse", "GroupChatTeamResponse"} ->
            handle_agent_response(s, message, selection)
      [] message.kind = "GroupChatMessage" -> handle_group_chat_message(s, message)
      [] message.kind = "GroupChatError" -> handle_group_chat_error(s, message)
      [] message.kind = "GroupChatReset" -> handle_reset(s, message)
      [] message.kind = "GroupChatPause" -> handle_pause(s, message)
      [] message.kind = "GroupChatResume" -> handle_resume(s, message)
      [] OTHER -> on_unhandled_message(s, message)

GateEvent(event, ticket, kind, raised) ==
    [event |-> event, ticket |-> ticket, kind |-> kind, raised |-> raised]
\* Tickets number the messages in the order the bus delivered them.
Tickets == Len(SelectSeq(gate_log, LAMBDA e : e.event = "deliver"))
Handler(ticket, message, awaiting) ==
    [ticket |-> ticket, message |-> message, awaiting |-> awaiting]
Without(queue, i) == SubSeq(queue, 1, i - 1) \o SubSeq(queue, i + 1, Len(queue))

\* A manager without termination condition, turn limit and team events.
GateInit ==
    Init /\ init_error = "" /\ ~termination_condition /\ ~has_max_turns /\ ~emit_team_events

\* The bus delivers a message to the manager.
GateDeliver ==
    \E message \in GateMessages :
        /\ Tickets < MaxDelivered
        /\ IF message.kind \in SequentialMessageTypes
           THEN /\ gate_queue' = Append(gate_queue, Handler(Tickets + 1, message, FALSE))
                /\ gate_log' = Append(gate_log,
                                      GateEvent("deliver", Tickets + 1, message.kind, FALSE))
                /\ UNCHANGED gate_active
           ELSE /\ gate_active' = gate_active \cup {Handler(Tickets + 1, message, FALSE)}
                /\ gate_log' = gate_log \o
                                 <<GateEvent("deliver", Tickets + 1, message.kind, FALSE),
                                   GateEvent("begin", Tickets + 1, message.kind, FALSE)>>
                /\ UNCHANGED gate_queue
        /\ UNCHANGED <<gate_locked, config, fields, history>>

\* The gate is free: the next queued message gets it and its handler begins.
GateAccept ==
    /\ gate_queue # <<>>
    /\ gate_free
    /\ LET next == gate_queue[gate_next(gate_queue)]
       IN  /\ gate_queue' = Without(gate_queue, gate_next(gate_queue))
           /\ gate_active' = gate_active \cup {next}
           /\ gate_log' = Append(gate_log,
                                 GateEvent("begin", next.ticket, next.message.kind, FALSE))
    /\ gate_locked' = TRUE
    /\ UNCHANGED <<config, fields, history>>

\* A handler body suspends at an await (selector, condition, publish, put).
GateAwait ==
    \E h \in gate_active :
        /\ ~h.awaiting
        /\ gate_active' = (gate_active \ {h}) \cup {[h EXCEPT !.awaiting = TRUE]}
        /\ UNCHANGED <<gate_queue, gate_locked, gate_log, config, fields, history>>

\* A handler body finishes, by returning or by raising.
GateFinish ==
    \E h \in gate_active, validator_raises \in BOOLEAN, selection \in GateSelections :
        LET s == on_message_impl(Fields, h.message, validator_raises, selection)
        IN  /\ Deliver(h.message, s)
            /\ gate_active' = gate_active \ {h}
            /\ gate_log' = Append(gate_log,
                                  GateEvent("end", h.ticket, h.message.kind, s.raised # ""))
            /\ gate_locked' = IF h.message.kind \in SequentialMessageTypes
                              THEN ~gate_released(s.raised # "")
                              ELSE gate_locked
            /\ UNCHANGED gate_queue

GateNext ==
    \/ GateDeliver
    \/ GateAccept
    \/ GateAwait
    \/ GateFinish

GateSpec ==
    GateInit /\ [][GateNext]_vars /\ WF_vars(GateAccept) /\ WF_vars(GateFinish)

---------------------------------------------------------------------------
(* What a state shows of the handler that produced it *)

IsStart == handled.kind = "GroupChatStart"
IsResponse == handled.kind \in {"GroupChatAgentResponse", "GroupChatTeamResponse"}

\* The items the last handler put on the output queue.
NewItems == SubSeq(output_message_queue, Len(before.queue) + 1, Len(output_message_queue))
NewTerminations == SelectSeq(NewItems, IsTermination)

\* The last handler accepted a response, and that response emptied the active speakers.
Accepted == IsResponse /\ Did("remove") # <<>>
Drained == IsResponse /\ Did("drained") # <<>>
\* The termination condition returned a stop message to the last handler.
ConditionStopped == DidWith("condition", "stop") # <<>>
\* The exception the last handler let out to the runtime, "" when none.
Propagated == IF Did("propagate") = <<>> THEN "" ELSE Did("propagate")[1].arg
\* The puts of a termination event before the exception left the handler.
TerminationsBeforePropagate ==
    {i \in At("put") : effects[i].arg = "termination" /\ \A j \in At("propagate") : i < j}

MaxTurnsText(n) ==
    CASE n = 1 -> "Maximum number of turns 1 reached."
      [] n = 2 -> "Maximum number of turns 2 reached."
      [] OTHER -> "Maximum number of turns ? reached."

---------------------------------------------------------------------------
(* Claims *)

\* C1: for every run begun by a Start, once a terminal path has been taken
\* (condition stop, maximum turns, participant error, a failing handler)
\* exactly one Termination event has been put on the output queue for that
\* run, and never more than one at any time.
C1_ExactlyOneTerminationPerRun ==
    run.started =>
        /\ run.terminations <= 1
        /\ run.terminal => run.terminations = 1

\* C2: with max_turns = N and no stop from the termination condition, the
\* step that completes the N-th round after Start puts exactly one
\* Termination event, with the text "Maximum number of turns N reached.",
\* and calls no selector and sends no request.
C2_NthRound ==
    Drained /\ has_max_turns /\ run.started /\ run.rounds = max_turns /\ ~ConditionStopped
C2_MaxTurnsStops ==
    C2_NthRound =>
        /\ NewTerminations = <<GroupChatTermination(MaxTurnsText(max_turns), ManagerName, "")>>
        /\ Did("select_speaker") = <<>>
        /\ Did("request") = <<>>
C2_Witness ==
    /\ C2_NthRound
    /\ max_turns = 2
    /\ Len(NewTerminations) = 1

\* C3: a step leaves the turn counter as it was, sets it to 0 or adds exactly
\* 1 to it, and it adds 1 only when the handler is a response handler that
\* found active speakers and emptied them.
C3_TurnSteps ==
    /\ current_turn \in {before.turn, 0, before.turn + 1}
    /\ current_turn = before.turn + 1 => Drained /\ before.active # <<>>
C3_Witness ==
    /\ current_turn = before.turn + 1
    /\ Drained

\* C4: with max_turns configured every state between handlers has
\* 0 <= turn counter < max_turns, and a step whose round completion brings
\* the count to max_turns puts a Termination event and leaves the counter 0.
C4_ReachesMax ==
    Drained /\ has_max_turns /\ ~ConditionStopped /\ before.turn + 1 >= max_turns
C4_TurnBelowMax ==
    /\ init_error = "" /\ has_max_turns => 0 <= current_turn /\ current_turn < max_turns
    /\ C4_ReachesMax => NewTerminations # <<>> /\ current_turn = 0
C4_Witness ==
    /\ C4_ReachesMax
    /\ max_turns = 1
    /\ NewTerminations # <<>>

\* The delta of every answer of the round stands in the thread where it was
\* put, and the deltas follow each other in the order of arrival.
DeltasInArrivalOrder ==
    /\ \A i \in DOMAIN round.arrived :
         SubSeq(message_thread, round.at[i], round.at[i] + Len(round.deltas[i]) - 1)
            = round.deltas[i]
    /\ \A i, j \in DOMAIN round.arrived :
         i < j => round.at[i] + Len(round.deltas[i]) <= round.at[j]

\* The last handler ended the conversation itself (condition stop or maximum
\* turns), as opposed to reporting an error.
StoppedItself == NewTerminations # <<>> /\ Did("except") = <<>>

\* C5 (as amended): when two different participants are awaited in one round,
\* each response appends its delta; the first to arrive causes no selector
\* call and no termination evaluation; the second completes the round and is
\* followed by exactly one selector call, or by none when that completion
\* terminates the conversation (condition stop or maximum turns).
C5_RoundOfTwo ==
    Accepted /\ Len(round.speakers) = 2 /\ round.speakers[1] # round.speakers[2]
C5_TwoSpeakersOneTransition ==
    C5_RoundOfTwo =>
        /\ message_thread = before.thread \o response_delta(handled)
        /\ DeltasInArrivalOrder
        /\ Len(round.arrived) = 1 =>
              ~Drained /\ Did("select_speaker") = <<>> /\ Did("condition") = <<>>
        /\ Drained =>
              Len(Did("select_speaker")) = IF StoppedItself THEN 0 ELSE 1
C5_Witness ==
    /\ C5_RoundOfTwo
    /\ Drained
    /\ round.arrived = round.speakers
    /\ Len(Did("select_speaker")) = 1
\* C5 as stated: the completion of the round is always followed by exactly
\* one selector call.
C5_AlwaysOneTransition ==
    C5_RoundOfTwo /\ Drained => Len(Did("select_speaker")) = 1

\* C6: the deltas of a round stand in the thread in the order the responses
\* arrived; with X and Y awaited in this order and Y answering first, Y's
\* delta precedes X's and the round is not complete before X has answered.
C6_YFirst ==
    Accepted /\ round.speakers = <<"X", "Y">> /\ round.arrived[1] = "Y"
C6_ArrivalOrder ==
    /\ Accepted => DeltasInArrivalOrder
    /\ C6_YFirst =>
        /\ Len(round.arrived) = 1 => ~Drained /\ active_speakers = <<"X">>
        /\ Drained => round.arrived = <<"Y", "X">> /\ handled.name = "X"
C6_Witness ==
    /\ C6_YFirst
    /\ Drained
    /\ round.arrived = <<"Y", "X">>
    /\ round.at[1] < round.at[2]

\* C7: when the termination condition stops on the initial messages of a
\* Start, the handler puts exactly one Termination event, last, calls no
\* selector, sends no request, leaves the active speakers as they were
\* (empty when they were empty) and does not raise the turn counter.
C7_StopOnStart ==
    IsStart /\ ConditionStopped =>
        /\ Len(NewTerminations) = 1
        /\ IsTermination(output_message_queue[Len(output_message_queue)])
        /\ Did("select_speaker") = <<>>
        /\ Did("request") = <<>>
        /\ active_speakers = before.active
        /\ current_turn <= before.turn
C7_Witness ==
    /\ IsStart /\ ConditionStopped
    /\ before.active = <<>> /\ active_speakers = <<>>
    /\ Len(NewTerminations) = 1

\* C8: whenever an unknown speaker name makes a handler raise, a Termination
\* event carrying that error has been put on the output queue before the
\* error leaves the handler.
C8_UnknownSpeakerSignalled ==
    Propagated = UnknownSpeaker =>
        /\ TerminationsBeforePropagate # {}
        /\ NewTerminations # <<>>
        /\ NewTerminations[Len(NewTerminations)].error = UnknownSpeaker

\* C9: whenever the validator or the selector raises, exactly one Termination
\* event carrying the error is put on the output queue and the error then
\* leaves the handler.
C9_PluggableFailureSignalled ==
    /\ Propagated \in {"ValidationError", "SelectorError"} =>
        /\ Len(NewTerminations) = 1
        /\ TerminationsBeforePropagate # {}
        /\ NewTerminations[1].error = Propagated
    /\ \A i \in At("raise") :
         effects[i].arg \in {"ValidationError", "SelectorError"} => Propagated = effects[i].arg

\* C10 (as amended): a Start that follows a Termination event of a run puts
\* the one additional Termination event and leaves thread and turn counter
\* alone, without selector call or request, exactly when the termination
\* condition still shows terminated; a termination by the condition or by
\* the turn limit has reset that flag and an error termination never sets it
\* (no handler leaves the flag set that found it clear), so that after those
\* a Start validates and begins a new run.
C10_StartAfterTermination == IsStart /\ before.run.started /\ before.run.terminations >= 1
C10_ShortCircuit ==
    /\ NewItems = <<GroupChatTermination("The group chat has already terminated.", ManagerName, "")>>
    /\ message_thread = before.thread
    /\ current_turn = before.turn
    /\ Did("select_speaker") = <<>>
    /\ Did("request") = <<>>
C11_StartWhileTerminated == IsStart /\ before.terminated
C11_ShortCircuitFrame ==
    C11_StartWhileTerminated =>
        /\ NewItems = <<GroupChatTermination("The group chat has already terminated.",
                                             ManagerName, "")>>
        /\ message_thread = before.thread
        /\ current_turn = before.turn
        /\ active_speakers = before.active
        /\ Did("validate_group_state") = <<>>
        /\ Did("publish:" \o GroupTopic) = <<>>
        /\ Did("select_speaker") = <<>>
        /\ Did("request") = <<>>
        /\ Propagated = ""
C11_Witness ==
    /\ C11_StartWhileTerminated
    /\ handled.has_messages
    /\ before.thread # <<>>
    /\ Len(NewTerminations) = 1

\* The last handler ended the conversation because the termination condition
\* signalled or the maximum number of turns was reached.
TerminatedByPolicy ==
    /\ NewTerminations # <<>>
    /\ NewTerminations[1].error = ""
    /\ ~(IsStart /\ before.terminated)

\* C12: when a handler terminates the conversation because the termination
\* condition signalled or the maximum number of turns was reached, the
\* handler ends with the condition's terminated flag false and the turn
\* counter 0, and the condition was reset before the Termination event was
\* put on the output queue.
C12_ResetOnTermination ==
    TerminatedByPolicy =>
        /\ ~terminated
        /\ current_turn = 0
        /\ termination_condition =>
             \A p \in At("put") : effects[p].arg = "termination" =>
                \E r \in At("condition_reset") : r < p
C12_Witness ==
    /\ TerminatedByPolicy
    /\ ConditionStopped
    /\ before.turn > 0
    /\ current_turn = 0

\* C13: whenever a handler has put a Termination event on the output queue,
\* be it for a stop, for the turn limit, for an error a participant reported
\* or for a failure in a response handler, the turn counter is 0 when the
\* handler ends.
C13_TurnZeroAfterTermination ==
    NewTerminations # <<>> => current_turn = 0

\* C14: when a round of several speakers completes under a termination
\* condition, a stop trigger in the delta of any response of the round, not
\* only of the last one, makes the completing handler terminate the
\* conversation.
C14_StopAnywhereInRound ==
    /\ Drained
    /\ termination_condition
    /\ Cardinality(Range(round.speakers)) > 1
    /\ \E i \in DOMAIN round.deltas : condition_stops(round.deltas[i])
    => /\ NewTerminations # <<>>
       /\ Did("select_speaker") = <<>>

\* C15: a participant's Error message makes its handler put exactly one
\* Termination event carrying the reported error, and once a participant has
\* reported an error during a run no later handler of that run calls the
\* selector or sends a request, even when a late response empties the active
\* speakers.
C15_NoTransitionAfterError ==
    /\ handled.kind = "GroupChatError" =>
         /\ Len(NewTerminations) = 1
         /\ NewTerminations[1].error = handled.error
    /\ before.run.reported /\ ~IsStart =>
         /\ Did("select_speaker") = <<>>
         /\ Did("request") = <<>>

\* C16: after the Termination event of a run nothing more is put on the
\* output queue until the next Start is handled, whatever message arrives
\* (a late response, a relayed message, an Error message).
C16_TerminationIsLast ==
    before.run.started /\ before.run.terminations >= 1 /\ ~IsStart => NewItems = <<>>

\* C17: with a maximum number of turns configured, a selector that always
\* returns and participants that answer every request sent to them, every
\* Start is eventually followed by a Termination event on the output queue.
C17_StartLeadsToTermination ==
    IsStart ~> (run.started /\ run.terminations >= 1)

\* The await of select_speaker in the last handler was cancelled.
SelectionCancelled == DidWith("select_speaker", "cancel") # <<>>
\* What the last handler appended to the thread before it reached the
\* transition, and the active speakers when the transition began.
AppendedBeforeTransition ==
    IF IsStart THEN (IF handled.has_messages THEN handled.messages ELSE <<>>)
    ELSE response_delta(handled)
ActiveAtTransition ==
    IF IsStart THEN before.active ELSE list_remove(before.active, handled.name)

\* C18: when the selector call of a transition (begun by Start or by a round
\* completion) is cancelled, exactly one Termination event has been put on
\* the output queue for the run.
C18_CancelledSelectionSignalled ==
    SelectionCancelled => run.terminations = 1

\* C19: a cancellation during the selector call ends the handler with
\* CancelledError, keeps in the thread everything the handler appended
\* before, sends no request and adds no name to the active speakers, and
\* the speakers requested earlier are still awaited.
C19_CancelledSelectionFrame ==
    SelectionCancelled =>
        /\ Propagated = "CancelledError"
        /\ message_thread = before.thread \o AppendedBeforeTransition
        /\ Did("request") = <<>>
        /\ active_speakers = ActiveAtTransition
C19_Witness ==
    /\ SelectionCancelled
    /\ IsStart
    /\ handled.has_messages
    /\ before.active # <<>>
    /\ active_speakers = before.active
    /\ Len(message_thread) > Len(before.thread)

\* The last handler failed while selecting or validating speakers.
SelectionFailed ==
    \/ Propagated \in {"SelectorError", UnknownSpeaker}
    \/ SelectionCancelled

\* C20: when selecting or validating the speakers fails, no request has been
\* sent and the active speakers are as they were when the transition began;
\* this holds for a selection with an unknown name also when known names
\* precede it in the returned list.
C20_FailedSelectionFrame ==
    SelectionFailed =>
        /\ Did("request") = <<>>
        /\ active_speakers = ActiveAtTransition
C20_Witness ==
    /\ Propagated = UnknownSpeaker
    /\ DidWith("select_speaker", "list") # <<>>
    /\ IsStart
    /\ before.active # <<>>
    /\ active_speakers = before.active

\* C21: the names of a selection are added to the active speakers all or
\* none: a handler that has sent a request of its transition has completed
\* the transition, also when the publish of a later request is cancelled.
C21_AllOrNothing ==
    Did("request") # <<>> => Propagated = ""

\* C22: a response whose speaker is not among the active speakers leaves the
\* thread, the turn counter and the active speakers as they were.
C22_InactiveResponseRejected ==
    IsResponse /\ handled.name \notin Range(before.active) =>
        /\ message_thread = before.thread
        /\ current_turn = before.turn
        /\ active_speakers = before.active

\* C23: the handler of a relayed GroupChatMessage puts exactly that message
\* on the output queue and leaves thread, turn counter and active speakers
\* as they were, without evaluating the termination condition and without
\* a speaker transition.
C23_IsRelay == handled.kind = "GroupChatMessage"
C23_RelayFrame ==
    C23_IsRelay =>
        /\ NewItems = <<QueueMessage(handled.chat_message)>>
        /\ message_thread = before.thread
        /\ current_turn = before.turn
        /\ active_speakers = before.active
        /\ terminated = before.terminated
        /\ Did("condition") = <<>>
        /\ Did("select_speaker") = <<>>
        /\ Did("request") = <<>>
        /\ Propagated = ""
C23_Witness ==
    /\ C23_IsRelay
    /\ before.active # <<>>
    /\ before.thread # <<>>
    /\ Len(output_message_queue) = Len(before.queue) + 1

\* C25: __init__ returns exactly when the topic, name and description lists
\* have the same length, the participant topics are pairwise distinct, the
\* group topic is not among them and max_turns is absent or greater than 0;
\* otherwise it raises, and then no message is ever handled; a manager that
\* was constructed starts with an empty thread, turn counter 0 and no
\* active speakers.
C25_ValidArguments ==
    /\ Len(ctor.participant_topic_types) = Len(ctor.participant_names)
    /\ Len(ctor.participant_topic_types) = Len(ctor.participant_descriptions)
    /\ \A i, j \in DOMAIN ctor.participant_topic_types :
         i # j => ctor.participant_topic_types[i] # ctor.participant_topic_types[j]
    /\ ctor.group_topic_type \notin Range(ctor.participant_topic_types)
    /\ ctor.has_max_turns => ctor.max_turns > 0
C25_Construction ==
    /\ init_error = "" <=> C25_ValidArguments
    /\ init_error # "" =>
         /\ delivered = 0
         /\ handled = Control("__init__")
         /\ output_message_queue = <<>>
    /\ init_error = "" /\ delivered = 0 =>
         /\ message_thread = <<>>
         /\ current_turn = 0
         /\ active_speakers = <<>>
C25_Witness ==
    /\ init_error = "The participant topic types must be unique."
    /\ ~C25_ValidArguments
    /\ delivered = 0

\* C26: between a Pause and the next Resume no handler calls the selector or
\* sends a request: a Start or a round completion handled while paused
\* performs no speaker transition.
C26_PausedDefersTransitions ==
    before.paused =>
        /\ Did("select_speaker") = <<>>
        /\ Did("request") = <<>>

\* C27: the handlers of Pause and Resume change nothing: thread, turn
\* counter, active speakers, output queue and the condition's flag are as
\* before and nothing was done; and while paused the response of an awaited
\* speaker is still accepted and its delta appended to the thread.
C27_IsPauseOrResume == handled.kind \in {"GroupChatPause", "GroupChatResume"}
C27_PauseResumeNoOp ==
    /\ C27_IsPauseOrResume =>
         /\ message_thread = before.thread
         /\ current_turn = before.turn
         /\ active_speakers = before.active
         /\ output_message_queue = before.queue
         /\ terminated = before.terminated
         /\ effects = <<>>
    /\ before.paused /\ IsResponse /\ handled.name \in Range(before.active) =>
         /\ Accepted
         /\ message_thread = before.thread \o response_delta(handled)
C27_Witness ==
    /\ before.paused
    /\ Accepted
    /\ Len(message_thread) > Len(before.thread)

\* The message kinds the claims name as serialized by the gate.
GateSerializedKinds ==
    {"GroupChatStart", "GroupChatAgentResponse", "GroupChatTeamResponse",
     "GroupChatMessage", "GroupChatReset"}
Serialized(e) == e.kind \in GateSerializedKinds
\* Positions in the gate's log of the given event of the given ticket.
LogAt(event, ticket) ==
    {p \in DOMAIN gate_log : gate_log[p].event = event /\ gate_log[p].ticket = ticket}

\* C28: of the kinds Start, AgentResponse, TeamResponse, relayed message and
\* Reset at most one handler is executing at any time, also while it is
\* suspended at an await, and a handler of these kinds begins only after
\* every handler of these kinds that began before has ended.
C28_OneHandlerAtATime ==
    /\ Cardinality({h \in gate_active : h.message.kind \in GateSerializedKinds}) <= 1
    /\ \A p, q \in DOMAIN gate_log :
         /\ p < q
         /\ gate_log[p].event = "begin" /\ Serialized(gate_log[p])
         /\ gate_log[q].event = "begin" /\ Serialized(gate_log[q])
         => \E r \in LogAt("end", gate_log[p].ticket) : r < q
C28_Witness ==
    /\ \E h \in gate_active : h.message.kind \in GateSerializedKinds /\ h.awaiting
    /\ gate_queue # <<>>

\* C29: messages of the serialized kinds are handled in the order the bus
\* delivered them: when the handler of a message begins, the handler of
\* every such message delivered earlier has ended.
C29_DeliveryOrder ==
    \A p, q \in DOMAIN gate_log :
        /\ gate_log[p].event = "deliver" /\ Serialized(gate_log[p])
        /\ gate_log[q].event = "begin" /\ Serialized(gate_log[q])
        /\ gate_log[p].ticket < gate_log[q].ticket
        => \E r \in LogAt("end", gate_log[p].ticket) : r < q
C29_Witness ==
    \E p, q \in DOMAIN gate_log :
        /\ p < q
        /\ gate_log[p].event = "deliver" /\ gate_log[p].kind = "GroupChatAgentResponse"
        /\ gate_log[q].event = "deliver" /\ gate_log[q].kind = "GroupChatStart"
        /\ LogAt("end", gate_log[q].ticket) # {}

\* C30: a handler that raises gives the gate back: every message of a
\* serialized kind that waits in the gate's queue is handled in the end,
\* also when the handler of a message before it raised.
C30_Waiting(t) == \E i \in DOMAIN gate_queue : gate_queue[i].ticket = t
C30_RaisedDoesNotBlock ==
    \A t \in 1..MaxDelivered : C30_Waiting(t) ~> (LogAt("end", t) # {})
C30_Witness ==
    \E p, q \in DOMAIN gate_log :
        /\ p < q
        /\ gate_log[p].event = "end" /\ Serialized(gate_log[p]) /\ gate_log[p].raised
        /\ gate_log[q].event = "end" /\ Serialized(gate_log[q])
        /\ gate_log[p].ticket < gate_log[q].ticket

\* The items a sequence of messages makes on the output queue.
QueueMessages(messages) == [i \in DOMAIN messages |-> QueueMessage(messages[i])]

\* C31: a Start with initial messages that passes the validator puts the
\* messages on the output queue exactly when output_task_messages is set;
\* in both cases it appends them to the thread, publishes them to the group
\* topic and hands them to the termination condition (when one is
\* configured), all of it before the selector is called.
C31_StartWithMessages ==
    /\ IsStart /\ handled.has_messages
    /\ ~before.terminated
    /\ Propagated # "ValidationError"
C32_IsUnhandled == handled.kind = "Unknown"
C32_UnhandledRaises ==
    C32_IsUnhandled =>
        /\ Propagated = "ValueError: Unhandled message in group chat manager"
        /\ message_thread = before.thread
        /\ current_turn = before.turn
        /\ active_speakers = before.active
        /\ output_message_queue = before.queue
C32_Witness ==
    /\ C32_IsUnhandled
    /\ before.active # <<>>
    /\ Propagated # ""

\* C33: every handler other than that of Reset leaves the thread it found
\* as a prefix of the thread it leaves, also when it fails; what it appends
\* are the initial messages of a Start or the delta of a response, never a
\* selection event or the stop message of a Termination event.
C33_AppendOnly ==
    handled.kind \notin {"GroupChatReset", "__init__"} =>
        /\ Len(message_thread) >= Len(before.thread)
        /\ SubSeq(message_thread, 1, Len(before.thread)) = before.thread
        /\ SubSeq(message_thread, Len(before.thread) + 1, Len(message_thread))
             \in {<<>>, AppendedBeforeTransition}
        /\ \A i \in DOMAIN message_thread :
             message_thread[i].source \notin {ManagerName, "TextMentionTermination"}
C33_Witness ==
    /\ IsResponse
    /\ Propagated # ""
    /\ before.thread # <<>>
    /\ Len(message_thread) > Len(before.thread)
    /\ NewTerminations # <<>>

\* Positions in effects of the puts of a selection event.
SelectPuts == {p \in At("put") : effects[p].arg = "select"}

\* C34: a speaker transition puts the selection event on the output queue
\* exactly when emit_team_events is set and every selected name is known;
\* the event is then put after the selector returned and before the first
\* request of the transition; with the flag unset the transition puts
\* nothing on the output queue.
C34_SelectionLogged ==
    /\ Cardinality(SelectPuts) =
         IF emit_team_events /\ Did("select_speaker") # <<>> /\ ~SelectionFailed
         THEN 1 ELSE 0
    /\ \A p \in SelectPuts :
         /\ \E q \in At("select_speaker") : q < p
         /\ \A r \in At("request") : p < r
    /\ \A q \in At("select_speaker"), p \in At("put") :
         q < p => effects[p].arg = "select" \/ Did("except") # <<>>
C34_Witness ==
    /\ emit_team_events
    /\ SelectPuts # {}
    /\ Len(Did("request")) = 2

\* C35: when the response that completes a round makes the termination
\* condition stop and would also bring the turn counter to max_turns, the
\* handler puts exactly one Termination event, the one with the condition's
\* stop message and not the one about the maximum number of turns, and
\* leaves the turn counter 0.
C35_StopAtTurnLimit ==
    /\ Drained
    /\ termination_condition /\ condition_stops(response_delta(handled))
    /\ has_max_turns /\ before.turn + 1 >= max_turns
C35_ConditionBeforeLimit ==
    C35_StopAtTurnLimit =>
        /\ NewTerminations =
             <<GroupChatTermination("Text 'DONE' mentioned", "TextMentionTermination", "")>>
        /\ current_turn = 0
        /\ Did("select_speaker") = <<>>
C35_Witness ==
    /\ C35_StopAtTurnLimit
    /\ max_turns = 2
    /\ before.turn = 1
    /\ Len(NewTerminations) = 1

\* C36: a speaker transition that completes without error and without a
\* Termination event leaves at least one speaker awaited, also when the
\* selector returns an empty list.
C36_TransitionLeavesSpeakers ==
    /\ Did("select_speaker") # <<>>
    /\ Propagated = ""
    /\ NewTerminations = <<>>
    => active_speakers # <<>>

\* The number of entries of a list that are the name n.
Count(list, n) == Cardinality({i \in DOMAIN list : list[i] = n})
\* The directed requests the last handler dispatched to the participant n.
RequestsTo(n) ==
    Cardinality({i \in At("request") : effects[i].arg = participant_name_to_topic_type[n]})
\* 1 when the last handler accepted a response of the participant n, else 0.
AcceptedFrom(n) == IF Accepted /\ handled.name = n THEN 1 ELSE 0

\* C37: the active speakers are empty at construction and after a Reset, and
\* every other handler leaves, for each participant, as many entries as there
\* were before, plus the directed requests it dispatched to the participant,
\* minus one if it accepted a response of the participant; so the number of
\* entries is the number of requests dispatched minus the number of
\* responses accepted since the last Reset or construction, and an accepted
\* response removes exactly one entry, that of the responding participant.
C37_RequestsMinusResponses ==
    /\ Range(active_speakers) \subseteq DOMAIN participant_name_to_topic_type
    /\ handled.kind \in {"__init__", "GroupChatReset"} => active_speakers = <<>>
    /\ handled.kind \notin {"__init__", "GroupChatReset"} =>
         /\ \A n \in DOMAIN participant_name_to_topic_type :
              Count(active_speakers, n) =
                  Count(before.active, n) + RequestsTo(n) - AcceptedFrom(n)
         /\ Len(active_speakers) =
              Len(before.active) + Cardinality(At("request"))
                  - (IF Accepted THEN 1 ELSE 0)
         /\ Accepted => Count(before.active, handled.name) >= 1
C37_Witness ==
    /\ Accepted
    /\ Count(before.active, handled.name) = 2
    /\ Len(before.active) = 2
    /\ active_speakers = <<handled.name>>

\* C38 (as stated): no participant name is twice among the active speakers,
\* also when the selector returns a list that repeats a name.
C38_NoNameTwice ==
    \A n \in Range(active_speakers) : Count(active_speakers, n) = 1

\* C39 (as stated): a Start handled while speakers are still awaited does
\* not add its selection to the round in flight.
C39_StartDuringRound == IsStart /\ before.active # <<>>
C39_NoMergeIntoRound ==
    C39_StartDuringRound => active_speakers = before.active

\* A Start without initial messages that is not short-circuited.
C40_BareStart == IsStart /\ ~handled.has_messages /\ ~before.terminated
\* C40 (as stated): such a Start leaves the thread and the turn counter as
\* they were, puts nothing on the output queue, calls neither the termination
\* condition nor the turn limit, and performs exactly one speaker transition.
C40_AsStated ==
    C40_BareStart =>
        /\ message_thread = before.thread
        /\ current_turn = before.turn
        /\ NewItems = <<>>
        /\ Did("condition") = <<>>
        /\ Len(Did("select_speaker")) = 1
\* C40 (amended): such a Start leaves the thread and the turn counter as they
\* were, calls neither the termination condition nor the turn limit and puts
\* no Termination event; the only item it can put on the output queue is the
\* selection event, when team events are enabled; it calls the selector
\* exactly once, unless the validator raises, and then it calls it not at all
\* and the error leaves the handler.
C40_BareStartFrame ==
    C40_BareStart =>
        /\ message_thread = before.thread
        /\ current_turn = before.turn
        /\ Did("condition") = <<>>
        /\ NewTerminations = <<>>
        /\ At("put") = SelectPuts
        /\ Len(NewItems) = Cardinality(SelectPuts)
        /\ Cardinality(SelectPuts) <= (IF emit_team_events THEN 1 ELSE 0)
        /\ Len(Did("select_speaker")) = (IF Propagated = "ValidationError" THEN 0 ELSE 1)
C40_Witness ==
    /\ C40_BareStart
    /\ termination_condition
    /\ emit_team_events
    /\ before.thread # <<>>
    /\ Len(Did("select_speaker")) = 1
    /\ Len(NewItems) = 1
    /\ Propagated = ""
====
